---- MODULE Spec2Model ----
(***************************************************************************)
(* The `semi` lint rule of oxc-contrib/semi.rs: per visited AST node, the  *)
(* rule decides from the node's kind, its source text and the source text  *)
(* of the statement that follows it whether to report an unnecessary or a  *)
(* missing semicolon, each report carrying one fix.                        *)
(*                                                                         *)
(* Source text is a sequence of one-character strings; a span is a pair of *)
(* byte offsets into it.  The AST is the sequence `nodes` in the order the *)
(* host creates them (pre-order), each node with its kind, span, parent    *)
(* and the statement list it is an element of.                             *)
(***************************************************************************)
EXTENDS Integers, Sequences, FiniteSets, TLC

VARIABLES
    mode,       \* SemiMode of the rule instance: "Never" or "Always"
    src,        \* the source text of the linted file
    nodes,      \* the AST nodes, in creation order
    phase,      \* "lint": the file as given; "fixed": after one fix was applied
    fixedNode,  \* the node whose diagnostic's fix was applied (0: none)
    cur,        \* the node of the latest invocation of run (0: none yet)
    diags,      \* the diagnostics that invocation reported, in order
    panicked    \* that invocation ended in an arithmetic-overflow panic

vars == <<mode, src, nodes, phase, fixedNode, cur, diags, panicked>>

----------------------------------------------------------------------------
(* Bounds *)

\* Width of the model's Span offsets (u32 in the program, scaled down).
U32Bits == 7
\* Number of further statements that may follow the statements under study.
MaxTail == 1

U32Mod == 2 ^ U32Bits
U32Max == U32Mod - 1

----------------------------------------------------------------------------
(* Characters and the string functions the rule uses *)

\* char::is_whitespace, as used by trim_end / trim_start
Whitespace == {" ", "\n", "\t", "\r"}

\* char::is_alphanumeric (the ASCII part)
AlphaNumeric ==
    {"a", "b", "c", "d", "e", "f", "g", "h", "i", "j", "k", "l", "m",
     "n", "o", "p", "q", "r", "s", "t", "u", "v", "w", "x", "y", "z",
     "A", "B", "C", "D", "E", "F", "G", "H", "I", "J", "K", "L", "M",
     "N", "O", "P", "Q", "R", "S", "T", "U", "V", "W", "X", "Y", "Z",
     "0", "1", "2", "3", "4", "5", "6", "7", "8", "9"}

\* The backtick character (U+0060), which a TLA+ string cannot hold.
Backtick == "backtick"

\* the characters a next statement may start with to make an ASI hazard
AsiStartChars == {"(", "[", Backtick, "+", "-", "/", "*", "%"}

\* the non-alphanumeric characters a statement may end with to be continued
ContinuableEndChars == {")", "]", "}", "_", "$"}

RECURSIVE trim_end(_)
trim_end(s) ==
    IF Len(s) > 0 /\ s[Len(s)] \in Whitespace
    THEN trim_end(SubSeq(s, 1, Len(s) - 1))
    ELSE s

RECURSIVE trim_start(_)
trim_start(s) ==
    IF Len(s) > 0 /\ s[1] \in Whitespace
    THEN trim_start(Tail(s))
    ELSE s

\* str::ends_with over a set of characters
ends_with(s, chars) == Len(s) > 0 /\ s[Len(s)] \in chars

\* str::starts_with over a set of characters
starts_with(s, chars) == Len(s) > 0 /\ s[1] \in chars

\* rfind mistaken for find: the byte index of the first c in s
find_first(s, c) ==
    LET at == {i \in 1..Len(s) : s[i] = c}
    IN  IF at = {} THEN -1 ELSE (CHOOSE i \in at : \A j \in at : i <= j) - 1

\* str::rfind(c): the byte index (from 0) of the last c in s, -1 when none
rfind(s, c) ==
    LET at == {i \in 1..Len(s) : s[i] = c}
    IN  IF at = {} THEN -1 ELSE (CHOOSE i \in at : \A j \in at : j <= i) - 1

----------------------------------------------------------------------------
(* The host's accessors: spans, source ranges, parents, statement lists *)

Span(start, end) == [start |-> start, end |-> end]

\* GetSpan::span of node n
span_of(n) == Span(nodes[n].start, nodes[n].end)

\* ctx.source_range(span)
source_range(span) == SubSeq(src, span.start + 1, span.end)

\* ctx.nodes().parent_node(id): 0 for the root
parent_node(n) == nodes[n].parent

\* program.body / block.body / the statements of a function body: the
\* elements of statement list c, in source order
Body(c) ==
    SelectSeq([i \in 1..Len(nodes) |-> i], LAMBDA i : nodes[i].list = c)

----------------------------------------------------------------------------
(* The rule *)

\* Rule::from_configuration: the mode of the first element of the options
\* array; a value that is not an array is modelled as the empty sequence.
from_configuration(value) ==
    IF Len(value) > 0 /\ value[1] = "always" THEN "Always" ELSE "Never"

semi_unnecessary_diagnostic(span) ==
    [message |-> "Unnecessary semicolon", label |-> span]

semi_missing_diagnostic(span) ==
    [message |-> "Missing semicolon to avoid ASI issues", label |-> span]

\* ctx.diagnostic_with_fix(diagnostic, fix): one reported diagnostic
diagnostic_with_fix(diagnostic, fix) ==
    [message |-> diagnostic.message, label |-> diagnostic.label, fix |-> fix]

\* fixer.delete(&span)
fixer_delete(span) == [op |-> "delete", span |-> span, text |-> <<>>]

\* fixer.insert_text_after_range(span, text)
fixer_insert_text_after_range(span, text) ==
    [op |-> "insert_text_after_range", span |-> span, text |-> text]

\* the index (from 1) of the first element of body whose span contains the
\* span of target, searching from index i; 0 when there is none
RECURSIVE first_containing(_, _, _)
first_containing(body, target, i) ==
    IF i > Len(body) THEN 0
    ELSE IF /\ nodes[body[i]].start <= nodes[target].start
            /\ nodes[target].end <= nodes[body[i]].end
         THEN i
         ELSE first_containing(body, target, i + 1)

\* ctx.nodes().iter().find(|n| n.span() == span): the first node, in
\* creation order, with that span; 0 when there is none
find_node_by_span(span) ==
    LET same == {i \in 1..Len(nodes) : span_of(i) = span}
    IN  IF same = {} THEN 0 ELSE CHOOSE i \in same : \A j \in same : i <= j

\* find_next_in_body off by one: the element two places on
find_next_in_body_skips_one(body, target_node) ==
    LET index == first_containing(body, target_node, 1)
    IN  IF index # 0 /\ index + 2 <= Len(body)
        THEN find_node_by_span(span_of(body[index + 2]))
        ELSE 0

\* Semi::find_next_in_body; 0 is None
find_next_in_body(body, target_node) ==
    LET index == first_containing(body, target_node, 1)
    IN  IF index # 0 /\ index + 1 <= Len(body)
        THEN find_node_by_span(span_of(body[index + 1]))
        ELSE 0

\* the while loop of Semi::get_next_statement, from node `current`
RECURSIVE ascend(_, _)
ascend(current, node) ==
    LET parent == parent_node(current)
    IN  IF parent = 0 THEN 0
        ELSE IF nodes[parent].kind \in {"Program", "BlockStatement"}
             THEN find_next_in_body(Body(parent), node)
             ELSE ascend(parent, node)

\* Semi::get_next_statement; 0 is None
get_next_statement(node) == ascend(node, node)

\* is_semicolon_required without the test of the statement's last character
is_semicolon_required_any_ending(node, is_expression_statement) ==
    LET next == get_next_statement(node)
    IN  IF next # 0
        THEN starts_with(trim_start(source_range(span_of(next))),
                         AsiStartChars)
        ELSE FALSE

\* Semi::is_semicolon_required
is_semicolon_required(node, is_expression_statement) ==
    LET next == get_next_statement(node)
    IN  IF next # 0
        THEN LET next_source == trim_start(source_range(span_of(next)))
             IN  IF starts_with(next_source, AsiStartChars)
                 THEN IF is_expression_statement
                      THEN TRUE
                      ELSE LET current_source ==
                                   trim_end(source_range(span_of(node)))
                           IN  ends_with(current_source,
                                   AlphaNumeric \cup ContinuableEndChars)
                 ELSE FALSE
        ELSE FALSE

\* should_have_semicolon with return statements among the exceptions
should_have_semicolon_skips_return(node) ==
    nodes[node].kind \notin
        {"BlockStatement", "FunctionDeclaration", "ClassDeclaration",
         "IfStatement", "WhileStatement", "ForStatement", "ForInStatement",
         "ForOfStatement", "DoWhileStatement", "TryStatement",
         "SwitchStatement", "ReturnStatement"}

\* Semi::should_have_semicolon
should_have_semicolon(node) ==
    nodes[node].kind \notin
        {"BlockStatement", "FunctionDeclaration", "ClassDeclaration",
         "IfStatement", "WhileStatement", "ForStatement", "ForInStatement",
         "ForOfStatement", "DoWhileStatement", "TryStatement",
         "SwitchStatement"}

\* Semi::find_semicolon_position: the set of outcomes the build can produce.
\* `span.start + pos` and `semi_start + 1` are unchecked u32 additions: on
\* overflow a debug build panics and a release build wraps.
find_semicolon_position(span) ==
    LET source == source_range(span)
        pos == rfind(source, ";")
        none == [panic |-> FALSE, some |-> FALSE, span |-> Span(0, 0)]
    IN  IF pos = -1 THEN {none}
        ELSE IF pos > U32Max THEN {none}
        ELSE LET sum == span.start + pos
                 semi_start == sum % U32Mod
                 semi_end == semi_start + 1
                 wrapped == [panic |-> FALSE, some |-> TRUE,
                             span |-> Span(semi_start, semi_end % U32Mod)]
             IN  IF sum > U32Max \/ semi_end > U32Max
                 THEN {[panic |-> TRUE, some |-> FALSE, span |-> Span(0, 0)],
                       wrapped}
                 ELSE {wrapped}

\* one outcome of an invocation: the diagnostics reported, or a panic
Outcome(ds, p) == [diags |-> ds, panicked |-> p]

\* Semi::check_statement_semi: the set of outcomes
check_statement_semi(node, span, is_expression_statement) ==
    LET source == source_range(span)
        has_semicolon == ends_with(trim_end(source), {";"})
        end_span == Span(span.end, span.end)
        missing == diagnostic_with_fix(
                       semi_missing_diagnostic(end_span),
                       fixer_insert_text_after_range(span, <<";">>))
    IN  IF mode = "Never"
        THEN IF has_semicolon
             THEN IF ~is_semicolon_required(node, is_expression_statement)
                  THEN {IF semi_pos.panic THEN Outcome(<<>>, TRUE)
                        ELSE IF semi_pos.some
                        THEN Outcome(<<diagnostic_with_fix(
                                 semi_unnecessary_diagnostic(semi_pos.span),
                                 fixer_delete(semi_pos.span))>>, FALSE)
                        ELSE Outcome(<<>>, FALSE)
                        : semi_pos \in find_semicolon_position(span)}
                  ELSE {Outcome(<<>>, FALSE)}
             ELSE IF is_semicolon_required(node, is_expression_statement)
                  THEN {Outcome(<<missing>>, FALSE)}
                  ELSE {Outcome(<<>>, FALSE)}
        ELSE IF ~has_semicolon /\ should_have_semicolon(node)
             THEN {Outcome(<<missing>>, FALSE)}
             ELSE {Outcome(<<>>, FALSE)}

\* run without the guard on an export's attached declaration
run_any_export(node) ==
    LET kind == nodes[node].kind
    IN  IF kind = "ExpressionStatement"
        THEN check_statement_semi(node, span_of(node), TRUE)
        ELSE IF kind \in {"VariableDeclaration", "ReturnStatement",
                          "ThrowStatement", "BreakStatement",
                          "ContinueStatement", "ImportDeclaration",
                          "ExportAllDeclaration", "ExportNamedDeclaration",
                          "ExportDefaultDeclaration"}
        THEN check_statement_semi(node, span_of(node), FALSE)
        ELSE {Outcome(<<>>, FALSE)}

\* Rule::run: the set of outcomes of one invocation on node
run(node) ==
    LET kind == nodes[node].kind
    IN  IF kind = "ExpressionStatement"
        THEN check_statement_semi(node, span_of(node), TRUE)
        ELSE IF kind \in {"VariableDeclaration", "ReturnStatement",
                          "ThrowStatement", "BreakStatement",
                          "ContinueStatement", "ImportDeclaration",
                          "ExportAllDeclaration"}
        THEN check_statement_semi(node, span_of(node), FALSE)
        ELSE IF kind = "ExportNamedDeclaration"
        THEN IF nodes[node].declaration = "none"
             THEN check_statement_semi(node, span_of(node), FALSE)
             ELSE {Outcome(<<>>, FALSE)}
        ELSE IF kind = "ExportDefaultDeclaration"
        THEN IF nodes[node].declaration = "Expression"
             THEN check_statement_semi(node, span_of(node), FALSE)
             ELSE {Outcome(<<>>, FALSE)}
        ELSE {Outcome(<<>>, FALSE)}

----------------------------------------------------------------------------
(* The linted files: source texts and the trees the parser makes of them *)

T_a == <<"a">>
T_paren == <<"(", "a", ")">>
T_tpl == <<Backtick, "t", Backtick>>
T_incr == <<"a", "+", "+">>
T_neg == <<"-", "a">>
T_decl == <<"v", "a", "r", " ", "a">>
T_var == <<"v", "a", "r", " ", "a", " ", "=", " ", "b">>
T_str == <<"v", "a", "r", " ", "s", " ", "=", " ", "'", ";", "'">>
T_post == <<"v", "a", "r", " ", "a", " ", "=", " ", "b", "+", "+">>
T_ret == <<"r", "e", "t", "u", "r", "n", " ", "'", "b", "a", "r", "'">>
T_semi == <<";">>
T_nlsemi == <<"\n", ";">>
T_fn == <<"f", "u", "n", "c", "t", "i", "o", "n", " ", "f", "o", "o",
          "(", ")", " ">>
T_export == <<"e", "x", "p", "o", "r", "t", " ">>

\* a simple statement: its kind, its text up to a terminating semicolon,
\* and the terminator (nothing, `;`, or `;` on the next line)
Stmt(kind, core, term) == [kind |-> kind, core |-> core, term |-> term]

ExprStmts ==
    {Stmt("ExpressionStatement", c, t) :
        c \in {T_a, T_paren, T_tpl, T_incr}, t \in {<<>>, T_semi}}
    \cup {Stmt("ExpressionStatement", T_neg, <<>>)}

VarStmts ==
    {Stmt("VariableDeclaration", c, t) :
        c \in {T_decl, T_str}, t \in {<<>>, T_semi}}
    \cup {Stmt("VariableDeclaration", T_var, T_nlsemi),
          Stmt("VariableDeclaration", T_post, <<>>)}

ReturnStmts == {Stmt("ReturnStatement", T_ret, t) : t \in {<<>>, T_semi}}

TopStmts == ExprStmts \cup VarStmts
FnStmts == TopStmts \cup ReturnStmts
TailStmts ==
    {Stmt("ExpressionStatement", T_paren, <<>>),
     Stmt("VariableDeclaration", T_decl, T_semi)}

\* the sequences over S of length lo..hi
SeqsOf(S, lo, hi) == UNION {[1..n -> S] : n \in lo..hi}

\* Whether the parser reads `prev` and, after a line break, `next` as two
\* statements: it does after a semicolon or a closing brace, before a token
\* that cannot continue an expression, after a bare declaration, and after
\* a postfix operator when the next token would start a call, an index or
\* a template.
ParsesAsTwo(prev, next) ==
    LET p == trim_end(prev)
    IN  \/ ends_with(p, {";", "}"})
        \/ ~starts_with(next, AsiStartChars)
        \/ /\ Len(p) >= Len(T_decl)
           /\ SubSeq(p, Len(p) - Len(T_decl) + 1, Len(p)) = T_decl
        \/ /\ Len(p) >= 2 /\ p[Len(p)] = "+" /\ p[Len(p) - 1] = "+"
           /\ starts_with(next, {"(", "[", Backtick})

StmtText(st) == st.core \o st.term

Separated(sts) ==
    \A i \in 1..(Len(sts) - 1) :
        ParsesAsTwo(StmtText(sts[i]), StmtText(sts[i + 1]))

\* A file: an optional first top-level item `wrap` (a block statement, a
\* function declaration or an `export` of a variable declaration) holding
\* the statements `inner`, followed by the top-level statements `after`.
File(wrap, inner, after) == [wrap |-> wrap, inner |-> inner, after |-> after]

Files ==
    LET tails == SeqsOf(TailStmts, 0, MaxTail)
        plain == {File("none", <<>>, a \o t) :
                     a \in SeqsOf(TopStmts, 1, 2), t \in tails}
        wrapped(w, S) ==
            {File(w, i, a \o t) :
                i \in SeqsOf(S, 1, 1), a \in SeqsOf(TopStmts, 0, 1), t \in tails}
            \cup {File(w, i, <<>>) : i \in SeqsOf(S, 2, 2)}
        exported ==
            {File("export", i, a \o t) :
                i \in SeqsOf(VarStmts, 1, 1), a \in SeqsOf(TopStmts, 0, 1),
                t \in tails}
    IN  {f \in plain \cup wrapped("block", TopStmts)
                \cup wrapped("function", FnStmts) \cup exported :
            /\ Separated(f.inner)
            /\ Separated(f.after)
            /\ f.wrap = "export" /\ f.after # <<>>
                   => ParsesAsTwo(StmtText(f.inner[1]), StmtText(f.after[1]))}

Node(kind, start, end, parent, list, declaration) ==
    [kind |-> kind, start |-> start, end |-> end, parent |-> parent,
     list |-> list, declaration |-> declaration]

\* the text and nodes so far, with one simple statement appended as an
\* element of statement list `list` (0: of none) under `parent`
AddStmt(acc, st, parent, list) ==
    LET s == Len(acc.src)
        e == s + Len(StmtText(st))
        id == Len(acc.nodes) + 1
    IN  [src |-> acc.src \o StmtText(st),
         nodes |-> acc.nodes
             \o <<Node(st.kind, s, e, parent, list, "none")>>
             \o (IF st.kind = "ExpressionStatement"
                 THEN <<Node("Expression", s, s + Len(st.core), id, 0, "none")>>
                 ELSE <<>>)]

\* ... with the statements sts appended, one per line
RECURSIVE AddStmts(_, _, _, _)
AddStmts(acc, sts, parent, list) ==
    IF sts = <<>> THEN acc
    ELSE LET one == AddStmt(acc, Head(sts), parent, list)
         IN  IF Len(sts) = 1 THEN one
             ELSE AddStmts([one EXCEPT !.src = @ \o <<"\n">>],
                           Tail(sts), parent, list)

SetEnd(acc, id) == [acc EXCEPT !.nodes[id].end = Len(acc.src)]

\* ... with the file's first top-level item appended
AddWrap(acc, f) ==
    LET s == Len(acc.src)
        id == Len(acc.nodes) + 1
    IN  IF f.wrap = "block"
        THEN LET open == [src |-> acc.src \o <<"{", " ">>,
                          nodes |-> acc.nodes
                              \o <<Node("BlockStatement", s, s, 1, 1, "none")>>]
                 body == AddStmts(open, f.inner, id, id)
             IN  SetEnd([body EXCEPT !.src = @ \o <<" ", "}">>], id)
        ELSE IF f.wrap = "function"
        THEN LET b == s + Len(T_fn)
                 open == [src |-> acc.src \o T_fn \o <<"{", " ">>,
                          nodes |-> acc.nodes
                              \o <<Node("FunctionDeclaration", s, s, 1, 1, "none"),
                                   Node("FunctionBody", b, b, id, 0, "none")>>]
                 body == AddStmts(open, f.inner, id + 1, id + 1)
             IN  SetEnd(SetEnd([body EXCEPT !.src = @ \o <<" ", "}">>], id),
                        id + 1)
        ELSE IF f.wrap = "export"
        THEN LET open == [src |-> acc.src \o T_export,
                          nodes |-> acc.nodes
                              \o <<Node("ExportNamedDeclaration", s, s, 1, 1,
                                        "declaration")>>]
             IN  SetEnd(AddStmt(open, f.inner[1], id, 0), id)
        ELSE acc

\* the source text and the AST of file f, its first token at offset base
Parse(f, base) ==
    LET start == [src |-> [i \in 1..base |-> "\n"],
                  nodes |-> <<Node("Program", 0, 0, 0, 0, "none")>>]
        first == AddWrap(start, f)
        sep == IF f.wrap # "none" /\ f.after # <<>>
               THEN [first EXCEPT !.src = @ \o <<"\n">>]
               ELSE first
    IN  SetEnd(AddStmts(sep, f.after, 1, 1), 1)

\* the length of the text of file f
FileLen(f) == Len(Parse(f, 0).src)

\* the options the rule may be configured with
Configurations == {<<>>, <<"always">>, <<"never">>, <<"sometimes">>}

----------------------------------------------------------------------------
(* The state machine *)

Init ==
    \E f \in Files, value \in Configurations :
        \E base \in {0, U32Max - FileLen(f)} :
            /\ mode = from_configuration(value)
            /\ src = Parse(f, base).src
            /\ nodes = Parse(f, base).nodes
            /\ phase = "lint"
            /\ fixedNode = 0
            /\ cur = 0
            /\ diags = <<>>
            /\ panicked = FALSE

\* the host traversal invokes the rule on one node
Run ==
    \E node \in 1..Len(nodes) :
        \E outcome \in run(node) :
            /\ cur' = node
            /\ diags' = outcome.diags
            /\ panicked' = outcome.panicked
            /\ UNCHANGED <<mode, src, nodes, phase, fixedNode>>

\* the strict ancestors of node n
RECURSIVE Ancestors(_)
Ancestors(n) ==
    IF nodes[n].parent = 0 THEN {}
    ELSE {nodes[n].parent} \cup Ancestors(nodes[n].parent)

\* the element of a statement list that is node n or holds it; 0 when none
RECURSIVE ListElement(_)
ListElement(n) ==
    IF n = 0 THEN 0
    ELSE IF nodes[n].list # 0 THEN n
    ELSE ListElement(nodes[n].parent)

\* the position of element e in the statement list it belongs to
IndexInList(e) ==
    CHOOSE i \in 1..Len(Body(nodes[e].list)) : Body(nodes[e].list)[i] = e

\* the statement that follows node n in n's own statement list; 0 when n is
\* the last of its list
NextSibling(n) ==
    LET e == ListElement(n)
    IN  IF e = 0 THEN 0
        ELSE LET body == Body(nodes[e].list)
                 i == IndexInList(e)
             IN  IF i < Len(body) THEN body[i + 1] ELSE 0

\* the source text with the bytes of span removed
DeleteRange(text, span) ==
    SubSeq(text, 1, span.start) \o SubSeq(text, span.end + 1, Len(text))

\* the source text with `ins` inserted at byte offset `at`
InsertAt(text, at, ins) ==
    SubSeq(text, 1, at) \o ins \o SubSeq(text, at + 1, Len(text))

\* The host applies the fix of the diagnostic reported for node `cur` and
\* parses the result: the edit moves the spans behind it, the span of the
\* statement ends at its last token, and the tree keeps its shape (the guard:
\* the edited statement and its next sibling still parse as two statements).
ApplyFix ==
    /\ phase = "lint"
    /\ cur # 0
    /\ ~panicked
    /\ Len(diags) > 0
    /\ LET fix == diags[1].fix
           at == IF fix.op = "delete" THEN fix.span.start ELSE fix.span.end
           by == IF fix.op = "delete" THEN -1 ELSE 1
           text == IF fix.op = "delete"
                   THEN DeleteRange(src, fix.span)
                   ELSE InsertAt(src, at, fix.text)
           old == source_range(span_of(cur))
           edited == IF fix.op = "delete"
                     THEN trim_end(DeleteRange(old,
                              Span(at - nodes[cur].start,
                                   at + 1 - nodes[cur].start)))
                     ELSE old \o fix.text
           ends == {cur} \cup {a \in Ancestors(cur) :
                                  nodes[a].end = nodes[cur].end}
           next == NextSibling(cur)
       IN  /\ Len(text) <= U32Max
           /\ next # 0 => ParsesAsTwo(edited, source_range(span_of(next)))
           /\ src' = text
           /\ nodes' =
                  [m \in 1..Len(nodes) |->
                      [nodes[m] EXCEPT
                          !.start = IF @ >= at /\ @ > nodes[cur].start
                                    THEN @ + by ELSE @,
                          !.end = IF nodes[m].kind = "Program" THEN Len(text)
                                  ELSE IF m \in ends
                                  THEN nodes[cur].start + Len(edited)
                                  ELSE IF @ > at THEN @ + by ELSE @]]
    /\ phase' = "fixed"
    /\ fixedNode' = cur
    /\ cur' = 0
    /\ diags' = <<>>
    /\ UNCHANGED <<mode, panicked>>

Next == Run \/ ApplyFix

Spec == Init /\ [][Next]_vars

----------------------------------------------------------------------------
(* Vocabulary of the properties *)

\* the test input `function foo() { return 'bar' }`
FooSrc ==
    <<"f", "u", "n", "c", "t", "i", "o", "n", " ", "f", "o", "o", "(", ")",
      " ", "{", " ", "r", "e", "t", "u", "r", "n", " ", "'", "b", "a", "r",
      "'", " ", "}">>

\* the characters that open a call, an index or a template
CallStartChars == {"(", "[", Backtick}

Kind(n) == nodes[n].kind
Text(n) == source_range(span_of(n))

\* the kinds the rule is specified to check
Checkable(n) ==
    \/ Kind(n) \in {"ExpressionStatement", "VariableDeclaration",
                    "ReturnStatement", "ThrowStatement", "BreakStatement",
                    "ContinueStatement", "ImportDeclaration",
                    "ExportAllDeclaration"}
    \/ Kind(n) = "ExportNamedDeclaration" /\ nodes[n].declaration = "none"
    \/ Kind(n) = "ExportDefaultDeclaration"
           /\ nodes[n].declaration = "Expression"

HasSemicolon(n) ==
    LET t == trim_end(Text(n)) IN Len(t) > 0 /\ t[Len(t)] = ";"

BeginsWith(n, chars) ==
    LET t == trim_start(Text(n)) IN Len(t) > 0 /\ t[1] \in chars

EndsContinuable(n) ==
    LET t == trim_end(Text(n))
    IN  Len(t) > 0 /\ t[Len(t)] \in AlphaNumeric \cup ContinuableEndChars

Unnecessary(d) == d.message = "Unnecessary semicolon"
Missing(d) == d.message = "Missing semicolon to avoid ASI issues"

NoMissing == \A i \in 1..Len(diags) : ~Missing(diags[i])
OnlyUnnecessary == Len(diags) = 1 /\ Unnecessary(diags[1])
OnlyMissing == Len(diags) = 1 /\ Missing(diags[1])

\* the statement-list containers above n, nearest first by greatest id
ListAncestors(n) ==
    {a \in Ancestors(n) : Kind(a) \in {"Program", "BlockStatement"}}

Max(S) == CHOOSE x \in S : \A y \in S : y <= x
Min(S) == CHOOSE x \in S : \A y \in S : x <= y

----------------------------------------------------------------------------
(* The claims *)

\* C1: in Never mode a checkable statement that ends with `;` and whose next
\* statement in the same list begins with `(`, `[` or a backtick gets no
\* diagnostic.
C1_LoadBearingSemicolonKept ==
    /\ mode = "Never"
    /\ cur # 0
    /\ Checkable(cur)
    /\ HasSemicolon(cur)
    /\ NextSibling(cur) # 0
    /\ BeginsWith(NextSibling(cur), CallStartChars)
    => diags = <<>>

\* C2: after the fix of a diagnostic is applied, the rule run again on the
\* same statement reports nothing.
C2_FixIdempotent ==
    phase = "fixed" /\ cur = fixedNode => diags = <<>>

\* C3 as claimed: in Always mode no node of `function foo() { return 'bar' }`
\* gets a diagnostic.
C3_FooNoDiagnostic ==
    mode = "Always" /\ src = FooSrc /\ cur # 0 => diags = <<>>

\* C3 as amended: in Always mode, of the nodes of
\* `function foo() { return 'bar' }` the function declaration and its body
\* get no diagnostic, and the return statement gets exactly one, "missing
\* semicolon" at its end with the insertion of `;` after its span.
C3_FooReturnFlagged ==
    mode = "Always" /\ src = FooSrc /\ cur # 0 =>
        IF Kind(cur) = "ReturnStatement"
        THEN /\ OnlyMissing
             /\ diags[1].label = Span(nodes[cur].end, nodes[cur].end)
             /\ diags[1].fix =
                    fixer_insert_text_after_range(span_of(cur), <<";">>)
        ELSE diags = <<>>

\* C3: in Always mode the return statement of that input, the last of its
\* block and without a semicolon, has been visited and flagged.
C3_Witness ==
    /\ mode = "Always"
    /\ src = FooSrc
    /\ cur # 0
    /\ Kind(cur) = "ReturnStatement"
    /\ ~HasSemicolon(cur)
    /\ NextSibling(cur) = 0
    /\ OnlyMissing

\* C4: for a checkable statement with no next statement, or a next statement
\* that does not begin with one of ( [ backtick + - / * %, Never mode reports
\* nothing without a semicolon and exactly "unnecessary semicolon" with one;
\* Always mode reports exactly "missing semicolon" without a semicolon and
\* nothing with one.
C4_ModeDuality ==
    /\ cur # 0
    /\ Checkable(cur)
    /\ NextSibling(cur) # 0 => ~BeginsWith(NextSibling(cur), AsiStartChars)
    => /\ mode = "Never" =>
              IF HasSemicolon(cur) THEN OnlyUnnecessary ELSE diags = <<>>
       /\ mode = "Always" =>
              IF HasSemicolon(cur) THEN diags = <<>> ELSE OnlyMissing

\* C5: in Never mode the last statement of a block or of a function body
\* never gets "missing semicolon", and the next statement the hazard
\* predicate uses is always a member of the checked statement's own list.
C5_NoCrossContainerHazard ==
    /\ /\ mode = "Never"
       /\ cur # 0
       /\ Checkable(cur)
       /\ nodes[cur].list # 0
       /\ Kind(nodes[cur].list) \in {"BlockStatement", "FunctionBody"}
       /\ NextSibling(cur) = 0
       => NoMissing
    /\ /\ cur # 0
       /\ Checkable(cur)
       /\ get_next_statement(cur) # 0
       => /\ ListElement(cur) # 0
          /\ nodes[get_next_statement(cur)].list = nodes[ListElement(cur)].list

\* C6: the hazard predicate is true exactly when a next statement exists, it
\* begins with one of ( [ backtick + - / * %, and the node is an expression
\* statement or its text ends alphanumeric or in ) ] } _ $; and in Never mode
\* an expression statement without a semicolon followed by a statement that
\* begins with ( [ or a backtick always gets "missing semicolon".
C6_HazardPredicate ==
    /\ \A n \in 1..Len(nodes) : \A e \in BOOLEAN :
           is_semicolon_required(n, e) <=>
               /\ get_next_statement(n) # 0
               /\ BeginsWith(get_next_statement(n), AsiStartChars)
               /\ e \/ EndsContinuable(n)
    /\ /\ mode = "Never"
       /\ cur # 0
       /\ Kind(cur) = "ExpressionStatement"
       /\ ~HasSemicolon(cur)
       /\ NextSibling(cur) # 0
       /\ BeginsWith(NextSibling(cur), CallStartChars)
       => OnlyMissing

\* C7 as claimed: in Never mode a checkable statement of any kind that has
\* no semicolon and ends in a character that is neither alphanumeric nor one
\* of ) ] } _ $ never gets "missing semicolon".
C7_OtherEndingNeverFlagged ==
    /\ mode = "Never"
    /\ cur # 0
    /\ Checkable(cur)
    /\ ~HasSemicolon(cur)
    /\ ~EndsContinuable(cur)
    => NoMissing

\* C7 as amended: the same of every checkable statement that is not an
\* expression statement.
C7_OtherEndingNeverFlaggedNonExpression ==
    /\ mode = "Never"
    /\ cur # 0
    /\ Checkable(cur)
    /\ Kind(cur) # "ExpressionStatement"
    /\ ~HasSemicolon(cur)
    /\ ~EndsContinuable(cur)
    => NoMissing

\* C7: a variable declaration without a semicolon that ends in `+`, followed
\* by a statement that begins with ( [ or a backtick, has been visited in Never
\* mode and not flagged.
C7_Witness ==
    /\ mode = "Never"
    /\ cur # 0
    /\ Kind(cur) = "VariableDeclaration"
    /\ ~HasSemicolon(cur)
    /\ ~EndsContinuable(cur)
    /\ NextSibling(cur) # 0
    /\ get_next_statement(cur) = NextSibling(cur)
    /\ BeginsWith(NextSibling(cur), CallStartChars)
    /\ diags = <<>>

\* C8: one invocation reports at most one diagnostic, each with exactly the
\* fix of its kind (a delete of the labelled range, or the insertion of `;`
\* after the node's span, labelled at the span's end), and none for a node
\* that is not checkable.
C8_OneDiagnosticOneFix ==
    cur # 0 =>
        /\ Len(diags) <= 1
        /\ \A i \in 1..Len(diags) :
               \/ /\ Unnecessary(diags[i])
                  /\ diags[i].fix = fixer_delete(diags[i].label)
               \/ /\ Missing(diags[i])
                  /\ diags[i].label = Span(nodes[cur].end, nodes[cur].end)
                  /\ diags[i].fix =
                         fixer_insert_text_after_range(span_of(cur), <<";">>)
        /\ ~Checkable(cur) => diags = <<>>

\* C8: a checkable node of a file that also holds an export with an attached
\* declaration has been visited and got its one diagnostic.
C8_Witness ==
    /\ cur # 0
    /\ Checkable(cur)
    /\ Len(diags) = 1
    /\ \E n \in 1..Len(nodes) : Kind(n) = "ExportNamedDeclaration"

\* C9: an "unnecessary semicolon" diagnostic labels and deletes the one byte
\* [p, p+1) of the last `;` of the node's text, inside the node's span, and
\* the u32 arithmetic that computes it neither wraps nor panics.
C9_SemicolonByte ==
    /\ ~panicked
    /\ cur # 0 =>
           \A i \in 1..Len(diags) : Unnecessary(diags[i]) =>
               LET p == diags[i].label.start
               IN  /\ diags[i].label = Span(p, p + 1)
                   /\ diags[i].fix.span = diags[i].label
                   /\ diags[i].fix.op = "delete"
                   /\ nodes[cur].start <= p /\ p < nodes[cur].end
                   /\ p + 1 <= U32Max
                   /\ src[p + 1] = ";"
                   /\ \A q \in (p + 1)..(nodes[cur].end - 1) : src[q + 1] # ";"

\* C9: an unnecessary semicolon has been reported whose byte ends at the
\* largest offset, in a statement whose text holds an earlier `;`.
C9_Witness ==
    /\ ~panicked
    /\ cur # 0
    /\ OnlyUnnecessary
    /\ diags[1].label.end = U32Max
    /\ \E q \in nodes[cur].start..(diags[1].label.start - 1) : src[q + 1] = ";"

\* C10: the sibling resolver returns the element that follows, in the
\* statement list of the node's nearest Program or block ancestor, the first
\* element whose span contains the node's span; and nothing when that
\* element is the last, when no element contains the span, or when there is
\* no such ancestor.
C10_SiblingResolver ==
    \A n \in 1..Len(nodes) :
        LET r == get_next_statement(n)
        IN  IF ListAncestors(n) = {} THEN r = 0
            ELSE LET body == Body(Max(ListAncestors(n)))
                     holds == {i \in 1..Len(body) :
                                  /\ nodes[body[i]].start <= nodes[n].start
                                  /\ nodes[n].end <= nodes[body[i]].end}
                 IN  IF holds = {} \/ Min(holds) = Len(body) THEN r = 0
                     ELSE r = body[Min(holds) + 1]

\* C10: in Never mode a node that lies inside a list element has been visited
\* and flagged on account of the element after that one, which is not the
\* last of the list; another node of the tree resolves to no next statement.
C10_Witness ==
    /\ mode = "Never"
    /\ cur # 0
    /\ Checkable(cur)
    /\ ListElement(cur) # cur
    /\ get_next_statement(cur) # 0
    /\ NextSibling(get_next_statement(cur)) # 0
    /\ OnlyMissing
    /\ \E m \in 1..Len(nodes) :
           Checkable(m) /\ ListAncestors(m) # {} /\ get_next_statement(m) = 0

====
